---- MODULE Spec2Model ----
(***************************************************************************)
(* A model of the jtd-derive procedural macro (macros/src/derive.rs).      *)
(*                                                                         *)
(* `derive` is a pure function from a parsed type definition (DeriveInput) *)
(* and the container attributes (Container, tag_type) to either a syn      *)
(* error or the token tree of the generated `schema` function.  The token  *)
(* tree is modelled as a term; running the generated function against a    *)
(* Generator (the schema registry) is a second step that turns each        *)
(* `gen.sub_schema::<T>()` term into the Schema the registry returns.      *)
(***************************************************************************)
EXTENDS Integers, Sequences, FiniteSets, TLC

VARIABLES input, tag_type, pc, res, gen, schema

vars == <<input, tag_type, pc, res, gen, schema>>

(***************************************************************************)
(* Bounds of the enumerated inputs.                                        *)
(***************************************************************************)
MaxFields == 2
MaxVariants == 3

IdentPool == <<"A", "B", "C", "D", "E">>
FieldPool == <<"x", "y", "z", "w">>

VariantNames == {IdentPool[i] : i \in 1..MaxVariants}
FieldNames == {FieldPool[i] : i \in 1..MaxFields}

\* Member types: a primitive and a type that itself derives JsonTypedef.
TypeRefs == {"u8", "Inner"}

Tags == {"kind", "t"}

(***************************************************************************)
(* Helpers on sequences.                                                   *)
(***************************************************************************)
SeqsUpTo(S, n) == UNION {[1..k -> S] : k \in 0..n}

Injective(s) == \A i, j \in DOMAIN s : s[i] = s[j] => i = j

(***************************************************************************)
(* syn's view of a type definition.                                        *)
(***************************************************************************)
Field(id, ty) == [ident |-> id, ty |-> ty]

FieldsNamed(fs) == [kind |-> "Named", fields |-> fs]
FieldsUnnamed(fs) == [kind |-> "Unnamed", fields |-> fs]
FieldsUnit == [kind |-> "Unit", fields |-> <<>>]

\* Field lists of a struct: named fields carry distinct identifiers,
\* unnamed fields carry none.
NamedLists ==
    {fs \in SeqsUpTo([ident : FieldNames, ty : TypeRefs], MaxFields) :
        Injective([i \in DOMAIN fs |-> fs[i].ident])}

UnnamedLists == SeqsUpTo([ident : {""}, ty : TypeRefs], MaxFields)

StructFields ==
    {FieldsNamed(fs) : fs \in NamedLists}
        \cup {FieldsUnnamed(fs) : fs \in UnnamedLists}
        \cup {FieldsUnit}

\* Payloads of enum variants: unit, record-like with zero, one and two
\* fields, tuple-like with zero, one and two fields.
VariantFields ==
    { FieldsUnit,
      FieldsNamed(<<>>),
      FieldsNamed(<<Field("x", "u8"), Field("y", "Inner")>>),
      FieldsUnnamed(<<>>),
      FieldsUnnamed(<<Field("", "u8")>>),
      FieldsUnnamed(<<Field("", "u8"), Field("", "Inner")>>) }

Variants ==
    {vs \in SeqsUpTo([ident : VariantNames, fields : VariantFields], MaxVariants) :
        Injective([i \in DOMAIN vs |-> vs[i].ident])}

DeriveInputs ==
    {[ident |-> "S", data |-> "Struct", fields |-> f, variants |-> <<>>] :
        f \in StructFields}
    \cup {[ident |-> "E", data |-> "Enum", fields |-> FieldsUnit, variants |-> vs] :
        vs \in Variants}
    \cup {[ident |-> "U", data |-> "Union", fields |-> FieldsUnit, variants |-> <<>>]}

(***************************************************************************)
(* context::TagType                                                        *)
(***************************************************************************)
External == [tag |-> "External", name |-> ""]
Internal(t) == [tag |-> "Internal", name |-> t]

TagStrategies == {External} \cup {Internal(t) : t \in Tags}

(***************************************************************************)
(* Results: Result<TokenStream, syn::Error>, or a panic of the macro.      *)
(***************************************************************************)
Ok(tokens) == [ok |-> TRUE, panic |-> FALSE, tokens |-> tokens]

\* syn::Error::new_spanned(span, msg); `combined` holds the errors added
\* with Error::combine, in order.
Err(span, msg, combined) ==
    [ok |-> FALSE, panic |-> FALSE, span |-> span, msg |-> msg, combined |-> combined]

Panic(msg) == [ok |-> FALSE, panic |-> TRUE, msg |-> msg]

\* The diagnostics of derive.rs.
EmptyNamedRecord == "jtd-derive does not support empty cstruct-like structs"
MultiFieldTuple == "jtd-derive only supports tuple structs if they have exactly one field"
UnitRecord == "jtd-derive does not support unit structs"
MissingDiscriminator == "jtd-derive requires an enum with struct variants to have a tag"
TupleVariant == "Typedef can't support tuple variants"
EmptyUnion == "jtd-derive does not support empty enums"
MixedVariants == "Typedef can't support enums with a mix of unit and struct variants"
HeresUnit == "here's a unit variant of"
HeresStruct == "here's a struct variant of"

(***************************************************************************)
(* Token trees of the generated `schema` body.                             *)
(***************************************************************************)
\* gen.sub_schema::<ty>()
SubSchemaCall(ty) == [node |-> "sub_schema", ty |-> ty]

\* Schema { ty: SchemaType::Enum { enum: [..] }, ..Schema::default() }
EnumSchema(idents) == [node |-> "Enum", enum |-> idents]

\* Schema { ty: SchemaType::Properties { .. }, ..Schema::default() }
PropertiesSchema(props, optional, additional) ==
    [node |-> "Properties", properties |-> props,
     optional_properties |-> optional, additional_properties |-> additional]

\* Schema { ty: SchemaType::Discriminator { .. }, ..Schema::default() }
DiscriminatorSchema(tag, mapping) ==
    [node |-> "Discriminator", discriminator |-> tag, mapping |-> mapping]

CompileError(msg) == [node |-> "compile_error", msg |-> msg]

(***************************************************************************)
(* gen_named_fields                                                        *)
(***************************************************************************)
\* Variant: the fields land in optional_properties instead of properties.
gen_named_fields_optional(fields, additional) ==
    PropertiesSchema(
        <<>>,
        [i \in DOMAIN fields.fields |->
            <<fields.fields[i].ident, SubSchemaCall(fields.fields[i].ty)>>],
        additional)

gen_named_fields(fields, additional) ==
    PropertiesSchema(
        [i \in DOMAIN fields.fields |->
            <<fields.fields[i].ident, SubSchemaCall(fields.fields[i].ty)>>],
        <<>>,
        additional)

(***************************************************************************)
(* gen_struct_schema                                                       *)
(***************************************************************************)
\* Variant: the guard of the tuple-struct arm reads `len() >= 1`.
gen_struct_schema_any_tuple(ctx, ident, s) ==
    CASE s.kind = "Named" /\ Len(s.fields) = 0 ->
            Err(ident, EmptyNamedRecord, <<>>)
      [] s.kind = "Named" /\ Len(s.fields) # 0 ->
            Ok(gen_named_fields(s, TRUE))
      [] s.kind = "Unnamed" /\ Len(s.fields) >= 1 ->
            Ok(SubSchemaCall(s.fields[1].ty))
      [] s.kind = "Unnamed" /\ Len(s.fields) < 1 ->
            Err(ident, MultiFieldTuple, <<>>)
      [] OTHER ->
            Err(ident, UnitRecord, <<>>)

\* Variant: a one-field tuple struct is treated as a record with the
\* positional field "0".
gen_struct_schema_wrapped(ctx, ident, s) ==
    CASE s.kind = "Named" /\ Len(s.fields) = 0 ->
            Err(ident, EmptyNamedRecord, <<>>)
      [] s.kind = "Named" /\ Len(s.fields) # 0 ->
            Ok(gen_named_fields(s, TRUE))
      [] s.kind = "Unnamed" /\ Len(s.fields) = 1 ->
            Ok(PropertiesSchema(<< <<"0", SubSchemaCall(s.fields[1].ty)>> >>, <<>>, TRUE))
      [] s.kind = "Unnamed" /\ Len(s.fields) # 1 ->
            Err(ident, MultiFieldTuple, <<>>)
      [] OTHER ->
            Err(ident, UnitRecord, <<>>)

gen_struct_schema(ctx, ident, s) ==
    CASE s.kind = "Named" /\ Len(s.fields) = 0 ->
            Err(ident, EmptyNamedRecord, <<>>)
      [] s.kind = "Named" /\ Len(s.fields) # 0 ->
            Ok(gen_named_fields(s, TRUE))
      [] s.kind = "Unnamed" /\ Len(s.fields) = 1 ->
            Ok(SubSchemaCall(s.fields[1].ty))
      [] s.kind = "Unnamed" /\ Len(s.fields) # 1 ->
            Err(ident, MultiFieldTuple, <<>>)
      [] OTHER ->
            Err(ident, UnitRecord, <<>>)

(***************************************************************************)
(* enum_kind: the scan over the variants, then the match on what it saw.   *)
(* An Option is a sequence of length zero or one.                          *)
(***************************************************************************)
\* Variant: each Option keeps the first variant it was given.
RECURSIVE enum_scan_keep_first(_, _, _, _)
enum_scan_keep_first(vs, i, named, unit) ==
    IF i > Len(vs) THEN [ret |-> <<>>, named |-> named, unit |-> unit]
    ELSE CASE vs[i].fields.kind = "Named" ->
                LET n == IF named = <<>> THEN <<vs[i]>> ELSE named IN
                IF unit # <<>>
                    THEN [ret |-> <<>>, named |-> n, unit |-> unit]
                    ELSE enum_scan_keep_first(vs, i + 1, n, unit)
           [] vs[i].fields.kind = "Unit" ->
                LET u == IF unit = <<>> THEN <<vs[i]>> ELSE unit IN
                IF named # <<>>
                    THEN [ret |-> <<>>, named |-> named, unit |-> u]
                    ELSE enum_scan_keep_first(vs, i + 1, named, u)
           [] OTHER ->
                [ret |-> <<Err(vs[i].ident, TupleVariant, <<>>)>>,
                 named |-> named, unit |-> unit]

\* Variant: the Named arm breaks out of the loop unconditionally.
RECURSIVE enum_scan_break_on_named(_, _, _, _)
enum_scan_break_on_named(vs, i, named, unit) ==
    IF i > Len(vs) THEN [ret |-> <<>>, named |-> named, unit |-> unit]
    ELSE CASE vs[i].fields.kind = "Named" ->
                [ret |-> <<>>, named |-> <<vs[i]>>, unit |-> unit]
           [] vs[i].fields.kind = "Unit" ->
                IF named # <<>>
                    THEN [ret |-> <<>>, named |-> named, unit |-> <<vs[i]>>]
                    ELSE enum_scan_break_on_named(vs, i + 1, named, <<vs[i]>>)
           [] OTHER ->
                [ret |-> <<Err(vs[i].ident, TupleVariant, <<>>)>>,
                 named |-> named, unit |-> unit]

RECURSIVE enum_scan(_, _, _, _)
enum_scan(vs, i, named, unit) ==
    IF i > Len(vs) THEN [ret |-> <<>>, named |-> named, unit |-> unit]
    ELSE CASE vs[i].fields.kind = "Named" ->
                IF unit # <<>>
                    THEN [ret |-> <<>>, named |-> <<vs[i]>>, unit |-> unit]
                    ELSE enum_scan(vs, i + 1, <<vs[i]>>, unit)
           [] vs[i].fields.kind = "Unit" ->
                IF named # <<>>
                    THEN [ret |-> <<>>, named |-> named, unit |-> <<vs[i]>>]
                    ELSE enum_scan(vs, i + 1, named, <<vs[i]>>)
           [] OTHER ->
                [ret |-> <<Err(vs[i].ident, TupleVariant, <<>>)>>,
                 named |-> named, unit |-> unit]

EnumKindUnitVariants == [ok |-> TRUE, kind |-> "UnitVariants"]
EnumKindStructVariants == [ok |-> TRUE, kind |-> "StructVariants"]

enum_kind(ident, e) ==
    LET s == enum_scan(e, 1, <<>>, <<>>) IN
    IF s.ret # <<>> THEN s.ret[1]
    ELSE CASE s.named = <<>> /\ s.unit = <<>> -> Err(ident, EmptyUnion, <<>>)
           [] s.named = <<>> /\ s.unit # <<>> -> EnumKindUnitVariants
           [] s.named # <<>> /\ s.unit = <<>> -> EnumKindStructVariants
           [] OTHER ->
                Err(ident, MixedVariants,
                    << [span |-> s.unit[1].ident, msg |-> HeresUnit, of |-> ident],
                       [span |-> s.named[1].ident, msg |-> HeresStruct, of |-> ident] >>)

(***************************************************************************)
(* unwrap_fields_named                                                     *)
(***************************************************************************)
unwrap_fields_named(fields) ==
    IF fields.kind = "Named" THEN fields ELSE Panic("expected named fields")

(***************************************************************************)
(* gen_enum_schema: the arm for EnumKind::UnitVariants, the arm for        *)
(* EnumKind::StructVariants, and the match that selects one.               *)
(***************************************************************************)
\* Variant: the enum schema is returned whatever the tag type is.
gen_unit_variants_untagged(ctx, enu) ==
    Ok(EnumSchema([i \in DOMAIN enu |-> enu[i].ident]))

gen_unit_variants(ctx, enu) ==
    LET enum_schema == EnumSchema([i \in DOMAIN enu |-> enu[i].ident]) IN
    IF ctx = External THEN Ok(enum_schema)
    ELSE Ok(PropertiesSchema(<< <<ctx.name, enum_schema>> >>, <<>>, TRUE))

\* Variant: an externally tagged enum is given the discriminator "type".
gen_struct_variants_default_tag(ctx, ident, enu) ==
    LET tag == IF ctx = External THEN "type" ELSE ctx.name
        named == [i \in DOMAIN enu |-> unwrap_fields_named(enu[i].fields)]
    IN  IF \E i \in DOMAIN named : named[i] = Panic("expected named fields")
        THEN Panic("expected named fields")
        ELSE Ok(DiscriminatorSchema(tag,
                [i \in DOMAIN enu |-> <<enu[i].ident, gen_named_fields(named[i], TRUE)>>]))

gen_struct_variants(ctx, ident, enu) ==
    IF ctx = External THEN Err(ident, MissingDiscriminator, <<>>)
    ELSE
        LET named == [i \in DOMAIN enu |-> unwrap_fields_named(enu[i].fields)] IN
        IF \E i \in DOMAIN named : named[i] = Panic("expected named fields")
        THEN Panic("expected named fields")
        ELSE Ok(DiscriminatorSchema(ctx.name,
                [i \in DOMAIN enu |-> <<enu[i].ident, gen_named_fields(named[i], TRUE)>>]))

\* Variant: the tag is required before the enum is classified.
gen_enum_schema_tag_first(ctx, ident, enu) ==
    IF ctx = External /\ \E i \in DOMAIN enu : enu[i].fields.kind = "Named"
    THEN Err(ident, MissingDiscriminator, <<>>)
    ELSE
        LET k == enum_kind(ident, enu) IN
        IF ~k.ok THEN k
        ELSE IF k = EnumKindUnitVariants THEN gen_unit_variants(ctx, enu)
        ELSE gen_struct_variants(ctx, ident, enu)

gen_enum_schema(ctx, ident, enu) ==
    LET k == enum_kind(ident, enu) IN
    IF ~k.ok THEN k
    ELSE IF k = EnumKindUnitVariants THEN gen_unit_variants(ctx, enu)
    ELSE gen_struct_variants(ctx, ident, enu)

(***************************************************************************)
(* derive: the body of the generated `schema` function.                    *)
(***************************************************************************)
derive(inp, ctx) ==
    CASE inp.data = "Struct" -> gen_struct_schema(ctx, inp.ident, inp.fields)
      [] inp.data = "Enum" -> gen_enum_schema(ctx, inp.ident, inp.variants)
      [] OTHER -> Ok(CompileError("jtd-derive does not support unions"))

(***************************************************************************)
(* The Generator (schema registry) the generated code runs against.        *)
(***************************************************************************)
\* JsonTypedef::referenceable of a member type: `true` for a type whose
\* impl was derived, `false` for the primitive.
referenceable(ty) == ty = "Inner"

\* JsonTypedef::schema of a member type, i.e. derive(T) run to a value.
TypeSchema(ty) ==
    IF ty = "Inner"
        THEN PropertiesSchema(<< <<"v", [node |-> "Type", type |-> "uint8"]>> >>, <<>>, TRUE)
        ELSE [node |-> "Type", type |-> "uint8"]

RefSchema(ty) == [node |-> "Ref", ref |-> ty]

\* Generator::sub_schema::<ty>(): a referenceable type that the registry
\* has already seen comes back as a reference, any other type inlined.
sub_schema(g, ty) ==
    LET ret == IF referenceable(ty) /\ ty \in g.seen THEN RefSchema(ty) ELSE TypeSchema(ty) IN
    [val |-> ret,
     gen |-> [seen |-> IF referenceable(ty) THEN g.seen \cup {ty} ELSE g.seen,
              calls |-> Append(g.calls, [ty |-> ty, ret |-> ret])]]

\* Evaluation of the generated expression, array elements left to right.
RECURSIVE Eval(_, _), EvalPairs(_, _)
Eval(t, g) ==
    CASE t.node = "sub_schema" -> sub_schema(g, t.ty)
      [] t.node = "Properties" ->
            LET r == EvalPairs(t.properties, g) IN
            [val |-> PropertiesSchema(r.val, t.optional_properties, t.additional_properties),
             gen |-> r.gen]
      [] t.node = "Discriminator" ->
            LET r == EvalPairs(t.mapping, g) IN
            [val |-> DiscriminatorSchema(t.discriminator, r.val), gen |-> r.gen]
      [] OTHER -> [val |-> t, gen |-> g]

EvalPairs(ps, g) ==
    IF ps = <<>> THEN [val |-> <<>>, gen |-> g]
    ELSE LET h == Eval(ps[1][2], g)
             rest == EvalPairs(Tail(ps), h.gen)
         IN [val |-> << <<ps[1][1], h.val>> >> \o rest.val, gen |-> rest.gen]

(***************************************************************************)
(* The state machine: the macro expands once on a parsed input; if it      *)
(* produced code, the generated `schema` function is later called with a   *)
(* Generator that may already have registered other types.                 *)
(***************************************************************************)
Pending == [ok |-> FALSE, panic |-> FALSE, span |-> "", msg |-> "", combined |-> <<>>]
NoSchema == [node |-> "None"]
NewGenerator == [seen |-> {}, calls |-> <<>>]

Init ==
    /\ input \in DeriveInputs
    /\ tag_type \in TagStrategies
    /\ pc = "parsed"
    /\ res = Pending
    /\ gen = NewGenerator
    /\ schema = NoSchema

DeriveStruct ==
    /\ pc = "parsed"
    /\ input.data = "Struct"
    /\ res' = derive(input, tag_type)
    /\ pc' = "derived"
    /\ UNCHANGED <<input, tag_type, gen, schema>>

DeriveEnum ==
    /\ pc = "parsed"
    /\ input.data = "Enum"
    /\ res' = derive(input, tag_type)
    /\ pc' = "derived"
    /\ UNCHANGED <<input, tag_type, gen, schema>>

DeriveUnion ==
    /\ pc = "parsed"
    /\ input.data = "Union"
    /\ res' = derive(input, tag_type)
    /\ pc' = "derived"
    /\ UNCHANGED <<input, tag_type, gen, schema>>

\* Earlier in the session the registry resolved a referenceable type.
Register(ty) ==
    /\ pc = "derived"
    /\ res.ok
    /\ res.tokens.node # "compile_error"
    /\ referenceable(ty)
    /\ ty \notin gen.seen
    /\ gen' = [gen EXCEPT !.seen = @ \cup {ty}]
    /\ UNCHANGED <<input, tag_type, pc, res, schema>>

\* The generated `schema(gen)` runs.
CallSchema ==
    /\ pc = "derived"
    /\ res.ok
    /\ res.tokens.node # "compile_error"
    /\ LET r == Eval(res.tokens, gen) IN
        /\ schema' = r.val
        /\ gen' = r.gen
    /\ pc' = "evaluated"
    /\ UNCHANGED <<input, tag_type, res>>

Next ==
    \/ DeriveStruct
    \/ DeriveEnum
    \/ DeriveUnion
    \/ \E ty \in TypeRefs : Register(ty)
    \/ CallSchema

Spec == Init /\ [][Next]_vars

(***************************************************************************)
(* Vocabulary of the properties.                                           *)
(***************************************************************************)
Derived == pc # "parsed"
Evaluated == pc = "evaluated"
IsStruct == input.data = "Struct"
IsEnum == input.data = "Enum"

Kinds(vs) == {vs[i].fields.kind : i \in DOMAIN vs}
Idents(vs) == [i \in DOMAIN vs |-> vs[i].ident]
Keys(pairs) == [i \in DOMAIN pairs |-> pairs[i][1]]
Values(pairs) == [i \in DOMAIN pairs |-> pairs[i][2]]

Failed(msg) == ~res.ok /\ ~res.panic /\ res.msg = msg

AllUnit(vs) == vs # <<>> /\ Kinds(vs) = {"Unit"}
AllNamed(vs) == vs # <<>> /\ Kinds(vs) = {"Named"}
MixedNoTuple(vs) == Kinds(vs) = {"Named", "Unit"}

\* The index of the first variant of kind k.
FirstIndex(vs, k) ==
    CHOOSE i \in DOMAIN vs :
        vs[i].fields.kind = k /\ \A j \in 1..(i - 1) : vs[j].fields.kind # k

\* The index of the first variant whose kind differs from the first variant's.
FirstChange(vs) ==
    CHOOSE i \in DOMAIN vs :
        /\ vs[i].fields.kind # vs[1].fields.kind
        /\ \A j \in 1..(i - 1) : vs[j].fields.kind = vs[1].fields.kind

CitedUnit == res.combined[1]
CitedStruct == res.combined[2]

\* The token tree the spec prescribes for a list of named fields.
RequiredProperties(fs) ==
    [node |-> "Properties",
     properties |-> [i \in DOMAIN fs |-> <<fs[i].ident, [node |-> "sub_schema", ty |-> fs[i].ty]>>],
     optional_properties |-> <<>>,
     additional_properties |-> TRUE]

(***************************************************************************)
(* C1: every enum with a tuple variant, wherever it stands and whatever    *)
(* the other variants are, fails with TupleVariant.                        *)
(***************************************************************************)
C1_TupleVariantAlways ==
    (Derived /\ IsEnum /\ "Unnamed" \in Kinds(input.variants))
        => Failed(TupleVariant)

(***************************************************************************)
(* C2 as stated: a mix of unit and record variants (no tuple variant)      *)
(* fails with MixedVariants, citing the first unit variant and the first   *)
(* record variant in source order.                                         *)
(***************************************************************************)
C2_FirstSeenCited ==
    (Derived /\ IsEnum /\ MixedNoTuple(input.variants)) =>
        /\ Failed(MixedVariants)
        /\ Len(res.combined) = 2
        /\ CitedUnit.span = input.variants[FirstIndex(input.variants, "Unit")].ident
        /\ CitedStruct.span = input.variants[FirstIndex(input.variants, "Named")].ident

(***************************************************************************)
(* C2 amended: a mix of unit and record variants (no tuple variant) fails  *)
(* with MixedVariants, citing exactly one unit and one record variant of   *)
(* the enum: the first variant whose kind differs from the first           *)
(* variant's kind, and the variant immediately before it.                  *)
(***************************************************************************)
C2_AdjacentPairCited ==
    (Derived /\ IsEnum /\ MixedNoTuple(input.variants)) =>
        LET vs == input.variants
            j == FirstChange(vs)
            cited == {CitedUnit.span, CitedStruct.span}
        IN  /\ Failed(MixedVariants)
            /\ res.span = input.ident
            /\ Len(res.combined) = 2
            /\ CitedUnit.msg = HeresUnit /\ CitedStruct.msg = HeresStruct
            /\ \E i \in DOMAIN vs :
                    vs[i].ident = CitedUnit.span /\ vs[i].fields.kind = "Unit"
            /\ \E i \in DOMAIN vs :
                    vs[i].ident = CitedStruct.span /\ vs[i].fields.kind = "Named"
            /\ cited = {vs[j - 1].ident, vs[j].ident}

C2_Witness ==
    /\ Derived /\ IsEnum /\ MixedNoTuple(input.variants)
    /\ Len(input.variants) = 3
    /\ input.variants[1].fields.kind = "Named"
    /\ input.variants[2].fields.kind = "Named"
    /\ input.variants[3].fields.kind = "Unit"
    /\ CitedStruct.span = input.variants[2].ident
    /\ CitedUnit.span = input.variants[3].ident

(***************************************************************************)
(* C3: the outcome kind of enum_kind (UnitVariants, StructVariants or the  *)
(* kind of the error) is the same for every permutation of the variants.   *)
(***************************************************************************)
OutcomeKind(r) == IF r.ok THEN r.kind ELSE r.msg

Reordered(vs) == {[i \in DOMAIN vs |-> vs[p[i]]] : p \in Permutations(DOMAIN vs)}

C3_OrderIndependent ==
    (Derived /\ IsEnum /\ input.variants # <<>>) =>
        \A ws \in Reordered(input.variants) :
            OutcomeKind(enum_kind(input.ident, ws))
                = OutcomeKind(enum_kind(input.ident, input.variants))

(***************************************************************************)
(* C4 as stated: a struct derives exactly when it has a named field or     *)
(* exactly one unnamed field; zero named fields give EmptyNamedRecord,     *)
(* more than one unnamed field gives MultiFieldTuple, and a struct with no *)
(* fields at all gives UnitRecord.                                         *)
(***************************************************************************)
C4_StructLayouts ==
    (Derived /\ IsStruct) =>
        LET f == input.fields
            n == Len(f.fields)
        IN  /\ res.ok <=> ((f.kind = "Named" /\ n >= 1) \/ (f.kind = "Unnamed" /\ n = 1))
            /\ (f.kind = "Named" /\ n = 0) => Failed(EmptyNamedRecord)
            /\ (f.kind = "Unnamed" /\ n > 1) => Failed(MultiFieldTuple)
            /\ (f.kind # "Named" /\ n = 0) => Failed(UnitRecord)

(***************************************************************************)
(* C4 amended: a struct derives exactly when it has a named field or       *)
(* exactly one unnamed field; zero named fields give EmptyNamedRecord, an  *)
(* unnamed layout with any number of fields other than one (zero           *)
(* included) gives MultiFieldTuple, and the unit layout gives UnitRecord.  *)
(***************************************************************************)
C4_StructLayoutsAmended ==
    (Derived /\ IsStruct) =>
        LET f == input.fields
            n == Len(f.fields)
        IN  /\ res.ok <=> ((f.kind = "Named" /\ n >= 1) \/ (f.kind = "Unnamed" /\ n = 1))
            /\ (f.kind = "Named" /\ n = 0) => Failed(EmptyNamedRecord)
            /\ (f.kind = "Unnamed" /\ n # 1) => Failed(MultiFieldTuple)
            /\ (f.kind = "Unit") => Failed(UnitRecord)
            /\ ~res.ok => res.span = input.ident /\ res.combined = <<>>

C4_Witness ==
    /\ Derived /\ IsStruct
    /\ input.fields.kind = "Unnamed" /\ Len(input.fields.fields) = 0
    /\ Failed(MultiFieldTuple)

(***************************************************************************)
(* C5: an enum whose variants are all record-like derives, under           *)
(* Internal(tag), a Discriminator on that tag whose mapping keys are the   *)
(* variant names in declaration order, each mapped to the Properties       *)
(* schema of that variant's fields (all required, none optional,           *)
(* additional_properties true); under External it fails with              *)
(* MissingDiscriminator and no schema is produced.                         *)
(***************************************************************************)
C5_StructVariantUnion ==
    (Derived /\ IsEnum /\ AllNamed(input.variants)) =>
        LET vs == input.variants IN
        IF tag_type = External
        THEN Failed(MissingDiscriminator) /\ ~Evaluated /\ schema = NoSchema
        ELSE /\ res.ok
             /\ res.tokens.node = "Discriminator"
             /\ res.tokens.discriminator = tag_type.name
             /\ Keys(res.tokens.mapping) = Idents(vs)
             /\ \A i \in DOMAIN vs :
                    res.tokens.mapping[i][2] = RequiredProperties(vs[i].fields.fields)
             /\ Evaluated =>
                    /\ schema.node = "Discriminator"
                    /\ schema.discriminator = tag_type.name
                    /\ Keys(schema.mapping) = Idents(vs)
                    /\ \A i \in DOMAIN vs :
                        LET v == schema.mapping[i][2] IN
                        /\ v.node = "Properties"
                        /\ v.additional_properties = TRUE
                        /\ v.optional_properties = <<>>
                        /\ Keys(v.properties) = Idents(vs[i].fields.fields)

C5_Witness ==
    /\ Evaluated /\ IsEnum /\ AllNamed(input.variants)
    /\ tag_type = Internal("kind")
    /\ Len(input.variants) = 3
    /\ Idents(input.variants) = <<"C", "A", "B">>
    /\ Len(input.variants[1].fields.fields) = 2
    /\ Len(input.variants[2].fields.fields) = 0
    /\ schema.node = "Discriminator"

(***************************************************************************)
(* C6 as stated: the schema of a struct with exactly one unnamed field of  *)
(* type T equals the schema T itself derives, for every T, referenceable   *)
(* or not, already registered or not.                                      *)
(***************************************************************************)
IsNewtype == IsStruct /\ input.fields.kind = "Unnamed" /\ Len(input.fields.fields) = 1

C6_TransparentEqualsInner ==
    (Evaluated /\ IsNewtype) => schema = TypeSchema(input.fields.fields[1].ty)

(***************************************************************************)
(* C6 amended: the schema of a struct with exactly one unnamed field of    *)
(* type T is the unmodified result of exactly one registry sub_schema      *)
(* call on T, with no wrapping object: it equals the schema T derives      *)
(* unless T is referenceable and already registered, when it is the        *)
(* registry's reference to T.                                              *)
(***************************************************************************)
C6_TransparentDelegation ==
    (Derived /\ IsNewtype) =>
        LET T == input.fields.fields[1].ty IN
        /\ res.ok
        /\ res.tokens = [node |-> "sub_schema", ty |-> T]
        /\ Evaluated =>
            /\ Len(gen.calls) = 1
            /\ gen.calls[1].ty = T
            /\ schema = gen.calls[1].ret
            /\ IF referenceable(T) /\ schema # TypeSchema(T)
                   THEN schema = RefSchema(T)
                   ELSE schema = TypeSchema(T)

C6_Witness ==
    /\ Evaluated /\ IsNewtype
    /\ input.fields.fields[1].ty = "Inner"
    /\ schema = RefSchema("Inner")

(***************************************************************************)
(* C7: a struct with at least one named field derives a Properties schema  *)
(* with additional_properties true, no optional properties, and required   *)
(* keys equal to the field names in declaration order, each value being    *)
(* the result of exactly one registry sub_schema call on that field's      *)
(* type.                                                                   *)
(***************************************************************************)
IsRecord == IsStruct /\ input.fields.kind = "Named" /\ Len(input.fields.fields) >= 1

C7_RecordProperties ==
    (Derived /\ IsRecord) =>
        LET fs == input.fields.fields IN
        /\ res.ok
        /\ res.tokens.node = "Properties"
        /\ res.tokens.additional_properties = TRUE
        /\ res.tokens.optional_properties = <<>>
        /\ Keys(res.tokens.properties) = Idents(fs)
        /\ \A i \in DOMAIN fs :
                res.tokens.properties[i][2] = [node |-> "sub_schema", ty |-> fs[i].ty]
        /\ Evaluated =>
            /\ schema.node = "Properties"
            /\ schema.additional_properties = TRUE
            /\ schema.optional_properties = <<>>
            /\ Keys(schema.properties) = Idents(fs)
            /\ [i \in DOMAIN gen.calls |-> gen.calls[i].ty] = [i \in DOMAIN fs |-> fs[i].ty]
            /\ Values(schema.properties) = [i \in DOMAIN gen.calls |-> gen.calls[i].ret]

C7_Witness ==
    /\ Evaluated /\ IsRecord
    /\ Len(input.fields.fields) = 2
    /\ Idents(input.fields.fields) = <<"y", "x">>
    /\ input.fields.fields[1].ty = "Inner"
    /\ input.fields.fields[2].ty = "Inner"
    /\ schema.properties[1][2] = TypeSchema("Inner")
    /\ schema.properties[2][2] = RefSchema("Inner")

(***************************************************************************)
(* C8: an enum with at least one variant, all unit-like, derives under     *)
(* External the Enum schema of the variant names, and under Internal(tag)  *)
(* a Properties schema with exactly one required property, named tag,      *)
(* holding that same Enum schema, with no optional properties and          *)
(* additional_properties true.                                             *)
(***************************************************************************)
C8_UnitVariantUnion ==
    (Derived /\ IsEnum /\ AllUnit(input.variants)) =>
        LET values == [node |-> "Enum", enum |-> Idents(input.variants)]
            expected ==
                IF tag_type = External THEN values
                ELSE [node |-> "Properties",
                      properties |-> << <<tag_type.name, values>> >>,
                      optional_properties |-> <<>>,
                      additional_properties |-> TRUE]
        IN  /\ res.ok
            /\ res.tokens = expected
            /\ Evaluated => schema = expected /\ gen.calls = <<>>

C8_Witness ==
    /\ Evaluated /\ IsEnum /\ AllUnit(input.variants)
    /\ tag_type = Internal("t")
    /\ Idents(input.variants) = <<"B", "A">>
    /\ schema.node = "Properties"

(***************************************************************************)
(* C9: an unsupported shape is rejected with the same UnsupportedShape     *)
(* kind under every tag strategy, never with MissingDiscriminator.         *)
(***************************************************************************)
UnsupportedShape ==
    {EmptyNamedRecord, UnitRecord, MultiFieldTuple, TupleVariant, MixedVariants, EmptyUnion}

UnsupportedInput ==
    \/ /\ IsStruct
       /\ \/ input.fields.kind = "Unit"
          \/ input.fields.kind = "Named" /\ Len(input.fields.fields) = 0
          \/ input.fields.kind = "Unnamed" /\ Len(input.fields.fields) # 1
    \/ /\ IsEnum
       /\ \/ input.variants = <<>>
          \/ "Unnamed" \in Kinds(input.variants)
          \/ {"Named", "Unit"} \subseteq Kinds(input.variants)

C9_ShapeErrorIgnoresStrategy ==
    (Derived /\ UnsupportedInput) =>
        /\ ~res.ok /\ ~res.panic
        /\ res.msg \in UnsupportedShape
        /\ \A t \in TagStrategies :
            LET other == derive(input, t) IN
            ~other.ok /\ ~other.panic /\ other.msg = res.msg

C9_Witness ==
    /\ Derived /\ IsEnum
    /\ tag_type = External
    /\ Len(input.variants) = 2
    /\ input.variants[1].fields.kind = "Named"
    /\ input.variants[2].fields.kind = "Unit"
    /\ Failed(MixedVariants)

(***************************************************************************)
(* C10: the panic of unwrap_fields_named is unreachable: when enum_kind    *)
(* returns StructVariants every variant of the enum has named fields, so   *)
(* derive never panics, for any enum and any tag strategy.                 *)
(***************************************************************************)
C10_NoPanic ==
    /\ ~res.panic
    /\ (Derived /\ IsEnum /\ enum_kind(input.ident, input.variants) = EnumKindStructVariants) =>
            \A i \in DOMAIN input.variants :
                /\ input.variants[i].fields.kind = "Named"
                /\ unwrap_fields_named(input.variants[i].fields) = input.variants[i].fields

C10_Witness ==
    /\ Derived /\ IsEnum
    /\ tag_type # External
    /\ Len(input.variants) = 3
    /\ AllNamed(input.variants)
    /\ res.ok /\ res.tokens.node = "Discriminator"

====
